---- MODULE Spec2Model ----
(***************************************************************************)
(* Model of PositionManager (src/account.py): the position / capital       *)
(* ledger that the Bollinger-band backtest of src/main.py drives.          *)
(*                                                                         *)
(* Decimal values are fixed-point integers in units of 10^-DecimalPlaces;  *)
(* Decimal division rounds half-even (the default decimal context).        *)
(* float values are integers in units of 2^-FloatFracBits; float(d) rounds *)
(* the decimal d to the nearest such value, ties to even.                  *)
(***************************************************************************)
EXTENDS Integers, Sequences, FiniteSets, TLC

VARIABLES position, total_cost, avg_cost_price, trades, holdings,
          trade_logs, last_price, initial_capital, available_capital, call

ledger == <<position, total_cost, avg_cost_price, trades, holdings,
            trade_logs, last_price, initial_capital, available_capital>>

vars == <<position, total_cost, avg_cost_price, trades, holdings,
          trade_logs, last_price, initial_capital, available_capital, call>>

----------------------------------------------------------------------------
(* Bounds of the model *)

MaxTrades == 3

DecimalPlaces == 2

FloatFracBits == 3

----------------------------------------------------------------------------
(* Number representations *)

Scale == 10 ^ DecimalPlaces

FloatScale == 2 ^ FloatFracBits

\* Decimal(n) for a whole number n
Dec(n) == n * Scale

\* round-half-even of the rational a / n, n > 0
RoundHalfEven(a, n) ==
    LET q == a \div n
        r == a % n
    IN  IF 2 * r < n THEN q
        ELSE IF 2 * r > n THEN q + 1
        ELSE IF q % 2 = 0 THEN q ELSE q + 1

\* Decimal / int, for n # 0
DecimalDiv(a, n) == IF n > 0 THEN RoundHalfEven(a, n) ELSE RoundHalfEven(-a, -n)

\* float(Decimal)
float(d) == RoundHalfEven(d * FloatScale, Scale)

----------------------------------------------------------------------------
(* Inputs *)

DefaultInitialCapital == 10000

Prices == {Dec(100), Dec(110)}

Quantities == {3, 10, 100}

\* timestamps of two samples of the intraday series
Times == {1, 2}

\* the reasons the backtest loop passes to buy and to sell
BuyReason == "below lower band"

SellReason == "above upper band"

\* the quantities sold: the backtest loop sells the whole position
SellQuantities(pos) == Quantities \cup (IF pos > 0 THEN {pos} ELSE {})

\* inputs outside the preconditions price > 0, quantity > 0
RawPrices == Prices \cup {Dec(0), Dec(-100)}

RawQuantities == Quantities \cup {0, -3}

----------------------------------------------------------------------------
(* Records *)

\* variant that drops the reason
Trade_unlabelled(time, action, price, quantity, reason) ==
    [time |-> time, action |-> action, price |-> price, quantity |-> quantity,
     reason |-> "", profit |-> 0]

\* Trade(time, action, price, quantity, reason) with profit left at its default
Trade(time, action, price, quantity, reason) ==
    [time |-> time, action |-> action, price |-> price, quantity |-> quantity,
     reason |-> reason, profit |-> 0]

TradeLog(time, action, price, quantity, reason, profit, pos, cost_price, market_value, avail, account_value, total_profit) ==
    [time |-> time, action |-> action, price |-> price, quantity |-> quantity,
     reason |-> reason, profit |-> profit, position |-> pos,
     cost_price |-> cost_price, market_value |-> market_value,
     available_capital |-> avail, account_value |-> account_value,
     total_profit |-> total_profit]

\* the last call made on the ledger: its price and quantity arguments, the
\* value it returned (<<>> for None) and the exception it raised
Call(op, price, quantity, ret, raised) ==
    [op |-> op, price |-> price, quantity |-> quantity, ret |-> ret,
     raised |-> raised]

NoCall == Call("__init__", 0, 0, <<>>, "none")

----------------------------------------------------------------------------
(* Valuation accessors, over an explicit ledger state *)

\* variant that forgets the share count
get_market_value_unit(lp, pos) == lp

get_market_value(lp, pos) == lp * pos

get_account_value(lp, pos, avail) == get_market_value(lp, pos) + avail

get_total_profit(lp, pos, avail, init) == get_account_value(lp, pos, avail) - init

\* variant that reports the cash alone as the account value
log_trade_cash_only(time, action, price, quantity, reason, profit, pos, avg, avail, lp, init) ==
    TradeLog(time, action, float(price), quantity, reason, profit, pos,
             float(avg), float(price * pos), float(avail), float(avail),
             float(get_total_profit(lp, pos, avail, init)))

\* the TradeLog that _log_trade appends, taken over the state after the trade
log_trade(time, action, price, quantity, reason, profit, pos, avg, avail, lp, init) ==
    TradeLog(time, action, float(price), quantity, reason, profit, pos,
             float(avg), float(price * pos), float(avail),
             float(get_account_value(lp, pos, avail)),
             float(get_total_profit(lp, pos, avail, init)))

----------------------------------------------------------------------------
Init ==
    /\ position = 0
    /\ total_cost = Dec(0)
    /\ avg_cost_price = Dec(0)
    /\ trades = <<>>
    /\ holdings = <<>>
    /\ trade_logs = <<>>
    /\ last_price = Dec(0)
    /\ initial_capital = Dec(DefaultInitialCapital)
    /\ available_capital = Dec(DefaultInitialCapital)
    /\ call = NoCall

\* variant that also moves the average cost to the new price
update_price_rebased(price) ==
    /\ last_price' = price
    /\ avg_cost_price' = price
    /\ call' = Call("update_price", price, 0, <<>>, "none")
    /\ UNCHANGED <<position, total_cost, trades, holdings, trade_logs,
                   initial_capital, available_capital>>

update_price(price) ==
    /\ last_price' = price
    /\ call' = Call("update_price", price, 0, <<>>, "none")
    /\ UNCHANGED <<position, total_cost, avg_cost_price, trades, holdings,
                   trade_logs, initial_capital, available_capital>>

----------------------------------------------------------------------------
(* Calls of the valuation accessors: each returns its value, assigns nothing *)

read_average_cost_price ==
    /\ call' = Call("get_average_cost_price", 0, 0, <<avg_cost_price>>, "none")
    /\ UNCHANGED ledger

read_market_value ==
    /\ call' = Call("get_market_value", 0, 0,
                    <<get_market_value(last_price, position)>>, "none")
    /\ UNCHANGED ledger

read_account_value ==
    /\ call' = Call("get_account_value", 0, 0,
                    <<get_account_value(last_price, position, available_capital)>>,
                    "none")
    /\ UNCHANGED ledger

read_total_profit ==
    /\ call' = Call("get_total_profit", 0, 0,
                    <<get_total_profit(last_price, position, available_capital,
                                       initial_capital)>>, "none")
    /\ UNCHANGED ledger

----------------------------------------------------------------------------
(* buy *)

\* variants of the rejection test of buy: one that lets an order overdraw
\* by up to 1000, one that never rejects
insufficient_capital_slack(cost, avail) == cost > avail + Dec(1000)

insufficient_capital_never(cost, avail) == FALSE

\* the rejection test of buy
insufficient_capital(cost, avail) == cost > avail

\* variant that leaves the cash untouched
buy_available_capital_kept(avail, cost) == avail

\* available_capital after a buy
buy_available_capital(avail, cost) == avail - cost

\* buy on a ledger where the division total_cost / position is defined
buy_ok(time, price, quantity, reason, cost) ==
    LET tc    == total_cost + cost
        pos   == position + quantity
        avail == buy_available_capital(available_capital, cost)
        avg   == DecimalDiv(tc, pos)
    IN  /\ total_cost' = tc
        /\ position' = pos
        /\ last_price' = price
        /\ available_capital' = avail
        /\ avg_cost_price' = avg
        /\ holdings' = Append(holdings,
                              [time |-> time, price |-> price, quantity |-> quantity])
        /\ trades' = Append(trades, Trade(time, "buy", float(price), quantity, reason))
        /\ trade_logs' = Append(trade_logs,
                                log_trade(time, "buy", price, quantity, reason, 0,
                                          pos, avg, avail, price, initial_capital))
        /\ call' = Call("buy", price, quantity, <<>>, "none")
        /\ UNCHANGED initial_capital

\* buy that leaves position = 0: total_cost / position raises after the
\* first four assignments have been made
buy_raise(time, price, quantity, reason, cost) ==
    /\ total_cost' = total_cost + cost
    /\ position' = position + quantity
    /\ last_price' = price
    /\ available_capital' = buy_available_capital(available_capital, cost)
    /\ call' = Call("buy", price, quantity, <<>>, "ZeroDivisionError")
    /\ UNCHANGED <<avg_cost_price, holdings, trades, trade_logs, initial_capital>>

buy(time, price, quantity, reason) ==
    LET cost == price * quantity
    IN  IF insufficient_capital(cost, available_capital)
        THEN /\ call' = Call("buy", price, quantity, <<>>, "none")
             /\ UNCHANGED ledger
        ELSE IF position + quantity = 0
             THEN buy_raise(time, price, quantity, reason, cost)
             ELSE buy_ok(time, price, quantity, reason, cost)

----------------------------------------------------------------------------
(* sell *)

\* variants of the rejection test of sell: one that never rejects, one that
\* rejects only on an empty position
insufficient_position_never(pos, quantity) == FALSE

insufficient_position_empty(pos, quantity) == pos <= 0

\* the rejection test of sell
insufficient_position(pos, quantity) == pos < quantity

\* total_cost after a sell
sell_total_cost(tc, price, quantity) == tc - price * quantity

\* variant that credits the price of one share only
sell_available_capital_one(avail, price, quantity) == avail + price

\* available_capital after a sell
sell_available_capital(avail, price, quantity) == avail + price * quantity

\* the profit of a sell, on the average cost before it
sell_profit(price, avg, quantity) == (price - avg) * quantity

\* variant that sets avg_cost_price to the sale price after every sell
sell_avg_cost_price_exit(tc, pos, price) == price

\* variant that clears avg_cost_price when the position is emptied
sell_avg_cost_price_cleared(tc, pos, price) ==
    IF pos # 0 THEN DecimalDiv(tc, pos) ELSE Dec(0)

\* avg_cost_price after a sell, from the new total_cost and position
sell_avg_cost_price(tc, pos, price) ==
    IF pos # 0 THEN DecimalDiv(tc, pos) ELSE price

\* the value sell returns
sell_return(profit) == 0

\* variant of the loop that keeps a lot whose quantity equals what remains
RECURSIVE update_holdings_loop_strict(_, _)
update_holdings_loop_strict(hs, remaining) ==
    IF hs = <<>> THEN <<>>
    ELSE LET holding == Head(hs)
         IN  IF remaining <= 0
             THEN <<holding>> \o update_holdings_loop_strict(Tail(hs), remaining)
             ELSE IF holding.quantity < remaining
                  THEN update_holdings_loop_strict(Tail(hs),
                                                   remaining - holding.quantity)
                  ELSE <<[time |-> holding.time, price |-> holding.price,
                          quantity |-> holding.quantity - remaining]>>
                       \o update_holdings_loop_strict(Tail(hs), 0)

RECURSIVE update_holdings_loop(_, _)
update_holdings_loop(hs, remaining) ==
    IF hs = <<>> THEN <<>>
    ELSE LET holding == Head(hs)
         IN  IF remaining <= 0
             THEN <<holding>> \o update_holdings_loop(Tail(hs), remaining)
             ELSE IF holding.quantity <= remaining
                  THEN update_holdings_loop(Tail(hs), remaining - holding.quantity)
                  ELSE <<[time |-> holding.time, price |-> holding.price,
                          quantity |-> holding.quantity - remaining]>>
                       \o update_holdings_loop(Tail(hs), 0)

\* variant that drops the oldest lot whole, whatever the quantity sold
_update_holdings_drop_front(hs, quantity) == IF hs = <<>> THEN <<>> ELSE Tail(hs)

_update_holdings(hs, quantity) == update_holdings_loop(hs, quantity)

sell(time, price, quantity, reason) ==
    IF insufficient_position(position, quantity)
    THEN /\ call' = Call("sell", price, quantity, <<0>>, "none")
         /\ UNCHANGED ledger
    ELSE LET tc     == sell_total_cost(total_cost, price, quantity)
             pos    == position - quantity
             avail  == sell_available_capital(available_capital, price, quantity)
             profit == sell_profit(price, avg_cost_price, quantity)
             avg    == sell_avg_cost_price(tc, pos, price)
         IN  /\ total_cost' = tc
             /\ position' = pos
             /\ last_price' = price
             /\ available_capital' = avail
             /\ avg_cost_price' = avg
             /\ holdings' = _update_holdings(holdings, quantity)
             /\ trades' = Append(trades,
                                 Trade(time, "sell", float(price), quantity, reason))
             /\ trade_logs' = Append(trade_logs,
                                     log_trade(time, "sell", price, quantity, reason,
                                               profit, pos, avg, avail, price,
                                               initial_capital))
             /\ call' = Call("sell", price, quantity,
                             <<sell_return(profit)>>, "none")
             /\ UNCHANGED initial_capital

----------------------------------------------------------------------------
(* The ledger driven with inputs that meet price > 0, quantity > 0 *)

\* the backtest loop visits the samples in time order: a trade is never
\* stamped earlier than the one before it
LaterTimes == {t \in Times : trades = <<>> \/ t >= trades[Len(trades)].time}

Next ==
    \/ \E price \in Prices : update_price(price)
    \/ /\ Len(trade_logs) < MaxTrades
       /\ \E time \in LaterTimes, price \in Prices, quantity \in Quantities :
             buy(time, price, quantity, BuyReason)
    \/ /\ Len(trade_logs) < MaxTrades
       /\ \E time \in LaterTimes, price \in Prices,
             quantity \in SellQuantities(position) :
             sell(time, price, quantity, SellReason)
    \/ read_average_cost_price
    \/ read_market_value
    \/ read_account_value
    \/ read_total_profit

Spec == Init /\ [][Next]_vars

(* The ledger driven with any price and quantity *)

MaxRawTrades == 2

NextRaw ==
    \/ \E price \in RawPrices : update_price(price)
    \/ /\ Len(trade_logs) < MaxRawTrades
       /\ \E price \in RawPrices, quantity \in RawQuantities :
             buy(1, price, quantity, BuyReason)
    \/ /\ Len(trade_logs) < MaxRawTrades
       /\ \E price \in RawPrices, quantity \in RawQuantities :
             sell(1, price, quantity, SellReason)

SpecRaw == Init /\ [][NextRaw]_vars

----------------------------------------------------------------------------
(* Properties *)

Last(seq) == seq[Len(seq)]

Abs(x) == IF x < 0 THEN -x ELSE x

\* a float f and a decimal d denote the same number
FloatEqDecimal(f, d) == f * Scale = d * FloatScale

\* C1: after any sequence of buy, sell and update_price calls on a freshly
\* constructed ledger, position >= 0.
C1_PositionNonNegative == position >= 0

\* a sell has emptied the position exactly
C1_Witness ==
    /\ call.op = "sell"
    /\ trades # <<>>
    /\ Last(trades).action = "sell"
    /\ position = 0

\* C2: in every reachable state available_capital >= 0.
C2_AvailableCapitalNonNegative == available_capital >= 0

\* a buy has spent the whole available capital
C2_Witness ==
    /\ call.op = "buy"
    /\ trades # <<>>
    /\ Last(trades).action = "buy"
    /\ available_capital = 0

\* C3: after a sell that brings position to 0, total_cost = 0.
C3_TotalCostZeroAfterExit ==
    (trades # <<>> /\ Last(trades).action = "sell" /\ position = 0)
        => total_cost = 0

\* C4: whenever position > 0, total_cost equals avg_cost_price * position up
\* to the rounding of the division: at most half a unit in the last decimal
\* place per share held.
C4_TotalCostIsAvgTimesPosition ==
    position > 0 => 2 * Abs(total_cost - avg_cost_price * position) <= position

\* a sell has left shares whose average cost was rounded
C4_Witness ==
    /\ call.op = "sell"
    /\ trades # <<>>
    /\ Last(trades).action = "sell"
    /\ position > 0
    /\ total_cost # avg_cost_price * position

\* C5: a successful buy at price p made while position = 0 leaves
\* avg_cost_price = p.
C5_BuyFromFlatSetsAvgToPrice ==
    [][(call'.op = "buy" /\ position = 0 /\ position' > 0)
          => avg_cost_price' = call'.price]_vars

\* C6: a successful sell returns (price - avg_cost_price before the sale) *
\* quantity.
C6_SellReturnsProfit ==
    [][(call'.op = "sell" /\ position' < position)
          => call'.ret = <<(call'.price - avg_cost_price) * call'.quantity>>]_vars

\* C7: the Trade and the TradeLog appended by a successful sell both carry
\* profit = (price - avg_cost_price before the sale) * quantity, and those
\* appended by a successful buy both carry profit = 0.
C7_ProfitStoredInTradeAndLog ==
    [][Len(trades') > Len(trades)
          => LET profit == IF call'.op = "sell"
                           THEN (call'.price - avg_cost_price) * call'.quantity
                           ELSE 0
             IN  /\ Last(trade_logs').profit = profit
                 /\ FloatEqDecimal(Last(trades').profit, profit)]_vars

\* C8: a buy whose cost price * quantity exceeds available_capital raises
\* nothing and leaves every field of the ledger unchanged.
C8_RejectedBuyChangesNothing ==
    [][(call'.op = "buy" /\ call'.price * call'.quantity > available_capital)
          => (call'.raised = "none" /\ UNCHANGED ledger)]_vars

\* a buy has been rejected on a ledger that has traded
C8_Witness ==
    /\ call.op = "buy"
    /\ call.price * call.quantity > available_capital
    /\ trade_logs # <<>>

\* C9: a sell whose quantity exceeds position raises nothing, returns 0 and
\* leaves every field of the ledger unchanged.
C9_RejectedSellChangesNothing ==
    [][(call'.op = "sell" /\ call'.quantity > position)
          => (call'.raised = "none" /\ call'.ret = <<0>> /\ UNCHANGED ledger)]_vars

\* a sell has been rejected on a ledger that holds shares
C9_Witness ==
    /\ call.op = "sell"
    /\ call.quantity > position
    /\ position > 0

\* C10: buy or sell with a non-positive price or quantity raises
\* InvalidArgument and leaves every field of the ledger unchanged.
C10_MalformedInputFailsFast ==
    [][(call'.op \in {"buy", "sell"} /\ (call'.price <= 0 \/ call'.quantity <= 0))
          => (call'.raised = "InvalidArgument" /\ UNCHANGED ledger)]_vars

\* the ledger's own valuation, in the current and in the next state
totalProfit == get_total_profit(last_price, position, available_capital, initial_capital)

accountValueNext == get_account_value(last_price', position', available_capital')

totalProfitNext == accountValueNext - initial_capital'

\* C11: on a fresh ledger a successful buy(qty, p1) followed by sell(qty, p2),
\* with no other trade, ends with position = 0, total profit (p2 - p1) * qty
\* and available_capital = initial_capital + (p2 - p1) * qty.
C11_RoundTripConservation ==
    [][(/\ Len(trades) = 1
        /\ Len(holdings) = 1
        /\ call'.op = "sell"
        /\ call'.quantity = holdings[1].quantity
        /\ call'.quantity <= position)
          => LET gain == (call'.price - holdings[1].price) * call'.quantity
             IN  /\ position' = 0
                 /\ totalProfitNext = gain
                 /\ available_capital' = initial_capital + gain]_vars

\* a buy and a sell of the same quantity at different prices have been made
C11_Witness ==
    /\ Len(trades) = 2
    /\ trades[1].action = "buy"
    /\ trades[2].action = "sell"
    /\ trades[1].quantity = trades[2].quantity
    /\ trades[1].price # trades[2].price
    /\ position = 0

\* C12: update_price(price) sets last_price to price and leaves every other
\* field of the ledger unchanged; no operation changes initial_capital.
C12_UpdatePriceFrame ==
    [][/\ initial_capital' = initial_capital
       /\ call'.op = "update_price"
             => /\ last_price' = call'.price
                /\ UNCHANGED <<position, total_cost, avg_cost_price,
                               available_capital, initial_capital, holdings,
                               trades, trade_logs>>]_vars

\* update_price has moved last_price away from the price of the last trade,
\* with shares held
C12_Witness ==
    /\ call.op = "update_price"
    /\ position > 0
    /\ last_price = call.price
    /\ ~FloatEqDecimal(Last(trades).price, last_price)

\* C13: a successful sell of quantity q at price p decreases position by q,
\* increases available_capital by p * q, sets last_price to p and, when it
\* empties the position, sets avg_cost_price to p.
C13_SellEffects ==
    [][(call'.op = "sell" /\ call'.quantity <= position)
          => /\ position' = position - call'.quantity
             /\ available_capital' = available_capital + call'.price * call'.quantity
             /\ last_price' = call'.price
             /\ (position' = 0 => avg_cost_price' = call'.price)]_vars

\* a sell has emptied a position whose average cost was not the sale price
C13_Witness ==
    /\ call.op = "sell"
    /\ Len(trades) >= 2
    /\ Last(trades).action = "sell"
    /\ position = 0
    /\ avg_cost_price = call.price
    /\ total_cost # 0

\* the call of the step is a buy or a sell that the ledger accepts
Accepted ==
    \/ call'.op = "buy" /\ call'.price * call'.quantity <= available_capital
    \/ call'.op = "sell" /\ call'.quantity <= position

Parallel ==
    /\ Len(trades) = Len(trade_logs)
    /\ \A i \in 1 .. Len(trades) :
          /\ trades[i].time = trade_logs[i].time
          /\ trades[i].action = trade_logs[i].action
          /\ trades[i].price = trade_logs[i].price
          /\ trades[i].quantity = trade_logs[i].quantity
          /\ trades[i].reason = trade_logs[i].reason

AppendOnlyStep ==
    /\ Accepted => /\ Len(trades') = Len(trades) + 1
                   /\ Len(trade_logs') = Len(trade_logs) + 1
                   /\ Last(trades').action = call'.op
                   /\ Last(trades').quantity = call'.quantity
                   /\ FloatEqDecimal(Last(trades').price, call'.price)
    /\ ~Accepted => /\ Len(trades') = Len(trades)
                    /\ Len(trade_logs') = Len(trade_logs)
    /\ Len(trades') >= Len(trades)
    /\ Len(trade_logs') >= Len(trade_logs)
    /\ SubSeq(trades', 1, Len(trades)) = trades
    /\ SubSeq(trade_logs', 1, Len(trade_logs)) = trade_logs

\* C14: trades and trade_logs are parallel and append-only: an accepted buy or
\* sell appends exactly one entry to each, a rejected order and update_price
\* append none, earlier entries are never changed or removed, and in every
\* state the two have equal length with the i-th entries agreeing on time,
\* side, price, quantity and reason.
C14_ParallelAppendOnly == [](Parallel) /\ [][AppendOnlyStep]_vars

\* two trades of different sides and times have been logged
C14_Witness ==
    /\ Len(trades) >= 2
    /\ Len(trade_logs) >= 2
    /\ trades[1].time # trades[2].time
    /\ trades[1].action # trades[2].action
    /\ trade_logs[2].reason = SellReason

\* C15 as stated: the fields of each TradeLog equal the ledger's position,
\* avg_cost_price, available_capital, account value and total profit right
\* after its trade, and its market value equals trade price * position.
C15_LogEqualsLedger ==
    [][Len(trade_logs') > Len(trade_logs)
          => LET entry == Last(trade_logs')
             IN  /\ entry.position = position'
                 /\ FloatEqDecimal(entry.cost_price, avg_cost_price')
                 /\ FloatEqDecimal(entry.available_capital, available_capital')
                 /\ FloatEqDecimal(entry.account_value, accountValueNext)
                 /\ FloatEqDecimal(entry.total_profit, totalProfitNext)
                 /\ FloatEqDecimal(entry.market_value, call'.price * position')]_vars

\* C15 as amended: the fields of each TradeLog are the float conversions of
\* the ledger's avg_cost_price, available_capital, account value and total
\* profit right after its trade, its market value is the float conversion of
\* trade price * position, and its position is the ledger's position.
C15_LogIsFloatOfLedger ==
    [][Len(trade_logs') > Len(trade_logs)
          => LET entry == Last(trade_logs')
             IN  /\ entry.position = position'
                 /\ entry.cost_price = float(avg_cost_price')
                 /\ entry.available_capital = float(available_capital')
                 /\ entry.account_value = float(accountValueNext)
                 /\ entry.total_profit = float(totalProfitNext)
                 /\ entry.market_value = float(call'.price * position')]_vars

\* a trade has been logged whose average cost has no exact float
C15_Witness ==
    /\ trade_logs # <<>>
    /\ call.op \in {"buy", "sell"}
    /\ Last(trade_logs).position = position
    /\ position > 0
    /\ Last(trade_logs).cost_price = float(avg_cost_price)
    /\ ~FloatEqDecimal(Last(trade_logs).cost_price, avg_cost_price)

Accessors == {"get_average_cost_price", "get_market_value", "get_account_value",
              "get_total_profit"}

\* what each accessor is to return, over the current ledger
Valuation(op) ==
    IF op = "get_average_cost_price" THEN avg_cost_price
    ELSE IF op = "get_market_value" THEN last_price * position
    ELSE IF op = "get_account_value" THEN last_price * position + available_capital
    ELSE last_price * position + available_capital - initial_capital

\* C16: the valuation accessors change no ledger state, return
\* avg_cost_price, last_price * position, market value + available_capital
\* and account value - initial_capital, and an accessor called again right
\* after itself returns the same value.
C16_AccessorsArePureReads ==
    [][call'.op \in Accessors
          => /\ UNCHANGED ledger
             /\ call'.ret = <<Valuation(call'.op)>>
             /\ (call.op = call'.op => call'.ret = call.ret)]_vars

\* the total profit has been read with shares held at a moved price
C16_Witness ==
    /\ call.op = "get_total_profit"
    /\ position > 0
    /\ call.ret # <<0>>
    /\ call.ret = <<last_price * position + available_capital - initial_capital>>

\* the shares held in a list of lots
RECURSIVE SumQuantity(_)
SumQuantity(lots) ==
    IF lots = <<>> THEN 0 ELSE Head(lots).quantity + SumQuantity(Tail(lots))

\* after is before with q shares taken from the front: the first k lots are
\* gone and, when they hold fewer than q shares, lot k + 1 is reduced by the
\* rest; the lots behind are as they were
ConsumedFifo(before, after, q) ==
    \E k \in 0 .. Len(before) :
        LET taken == SumQuantity(SubSeq(before, 1, k))
        IN  \/ /\ taken = q
               /\ after = SubSeq(before, k + 1, Len(before))
            \/ /\ k < Len(before)
               /\ taken < q
               /\ q < taken + before[k + 1].quantity
               /\ after = <<[before[k + 1] EXCEPT
                               !.quantity = before[k + 1].quantity - (q - taken)]>>
                          \o SubSeq(before, k + 2, Len(before))

\* C17: a successful sell of quantity q consumes the lots first in, first
\* out: the oldest lots are removed until q shares are accounted for, at most
\* one lot, the new front, is reduced, the later lots are unchanged, and no
\* retained lot has quantity <= 0.
C17_SellConsumesLotsFifo ==
    [][(call'.op = "sell" /\ call'.quantity <= position)
          => /\ ConsumedFifo(holdings, holdings', call'.quantity)
             /\ \A i \in 1 .. Len(holdings') : holdings'[i].quantity > 0]_vars

\* a sell has reduced the front lot and left a later lot as it was
C17_Witness ==
    /\ call.op = "sell"
    /\ trades # <<>>
    /\ Last(trades).action = "sell"
    /\ Len(holdings) >= 2
    /\ holdings[1].quantity \notin Quantities
    /\ holdings[2].quantity \in Quantities

\* the realized profits recorded in a sequence of TradeLog entries
RECURSIVE SumProfit(_)
SumProfit(logs) ==
    IF logs = <<>> THEN 0 ELSE Head(logs).profit + SumProfit(Tail(logs))

\* the shares sold in a sequence of TradeLog entries
RECURSIVE SumSold(_)
SumSold(logs) ==
    IF logs = <<>> THEN 0
    ELSE (IF Head(logs).action = "sell" THEN Head(logs).quantity ELSE 0)
         + SumSold(Tail(logs))

\* C18: whenever position = 0, the total profit equals the sum of the
\* realized profits recorded in trade_logs, up to the rounding of the average
\* cost: at most half a unit in the last decimal place per share sold.
C18_TotalProfitIsSumOfRealized ==
    position = 0
        => 2 * Abs(totalProfit - SumProfit(trade_logs)) <= SumSold(trade_logs)

\* C19: the quantities of the lots in holdings sum to position, and holdings
\* is empty exactly when position = 0.
C19_HoldingsSumToPosition ==
    /\ SumQuantity(holdings) = position
    /\ (holdings = <<>>) <=> (position = 0)

\* a sell has left two lots behind
C19_Witness ==
    /\ trades # <<>>
    /\ Last(trades).action = "sell"
    /\ Len(holdings) >= 2
    /\ position > 0

\* C20: after a successful buy or sell at price p the account value is the
\* available_capital before the trade plus p * the position before the trade.
C20_TradePreservesValue ==
    [][Accepted
          => accountValueNext = available_capital + call'.price * position]_vars

\* a buy has been made at a price other than the last price, with shares held
C20_Witness ==
    /\ call.op = "buy"
    /\ Len(trades) >= 2
    /\ Last(trades).action = "buy"
    /\ position > call.quantity
    /\ trades[Len(trades) - 1].price # Last(trades).price
    /\ last_price = call.price

====
